---- MODULE Spec2Model ----
(***************************************************************************)
(* WorkflowEngine of agent-orchestra (src/src/workflows/engine.ts).        *)
(*                                                                         *)
(* The engine runs on one JavaScript thread: the code between two awaits   *)
(* runs without interruption.  Every action below is one such stretch: an  *)
(* execute() call up to its first await, or the firing of a step's timer   *)
(* together with all the continuations that become runnable because of it. *)
(***************************************************************************)
EXTENDS Integers, Sequences, FiniteSets, TLC

\* ------------------------------------------------------------------ bounds

\* execute() calls issued during one run
MaxCalls == 2

\* the configurations tried have maxConcurrent in 1..MaxConfigured
MaxConfigured == 2

\* seconds the clock may advance while an execution is in flight
MaxDuration == 1

\* firings of the cleanup interval followed
MaxSweeps == 1

\* executeStep calls whose promise and timers are followed on their own
MaxAttempts == 2

\* ------------------------------------------------- constants of the program

\* initialize: setInterval(..., 3600000)
SweepEveryMs == 3600000

\* cleanupOldExecutions: Date.now() - 3600000
RetentionMs == 3600000

\* mergeConfig: workflows.maxConcurrent
DefaultMaxConcurrent == 10

\* mergeConfig: workflows.defaultTimeout
DefaultTimeout == 300000

\* mergeConfig: workflows.retryPolicy.maxRetries
DefaultMaxRetries == 3

\* executeStep: step.timeout || 30000
FallbackTimeout == 30000

\* executeStep: Math.random() * 2000
DelayRange == 2000

\* a value of Date.now() / 1000: the second in which the engine is started
StartOfRun == 1800000000

Calls == 1..MaxCalls

\* ------------------------------------------------------------- declarations

\* The values a caller passes to createWorkflow and addStep.  A field the
\* caller leaves out is absent from the record.  A step with the default
\* timeout always beats it; one with a timeout of 1000 ms may or may not;
\* one with a timeout of 1 ms never does.  The names of agents and actions
\* are one-word sequences, as every value is a sequence.
Declared ==
  [ seq    |-> [pattern |-> "sequential",
                steps   |-> << [name |-> "a"],
                               [name |-> "b", retries |-> 2, timeout |-> 1000,
                                input |-> <<"{{}}", "a.output">>] >>],
    par    |-> [pattern |-> "parallel",
                steps   |-> << [name |-> "a", timeout |-> 1000, retries |-> 2],
                               [name |-> "b"] >>],
    hier   |-> [pattern |-> "hierarchical",
                steps   |-> << [name |-> "w1", timeout |-> 1000],
                               [name |-> "sup", type |-> "supervisor",
                                timeout |-> 1000],
                               [name |-> "w2"] >>],
    nosup  |-> [pattern |-> "hierarchical",
                steps   |-> << [name |-> "w1"] >>],
    collab |-> [pattern |-> "collaborative",
                steps   |-> << [name |-> "a"],
                               [name |-> "b", timeout |-> 1000] >>],
    pipe   |-> [pattern |-> "pipeline",
                steps   |-> << [name |-> "a"] >>],
    etl    |-> [pattern |-> "sequential",
                steps   |-> << [name |-> "fetch", input |-> <<"lit", "src">>],
                               [name |-> "transform", retries |-> 1, timeout |-> 1000,
                                input |-> <<"{{}}", "previous">>],
                               [name |-> "store", input |-> <<"{{}}", "previous">>] >>],
    parprev |-> [pattern |-> "parallel",
                 steps   |-> << [name |-> "a"],
                                [name |-> "b", input |-> <<"{{}}", "previous">>] >>],
    empty  |-> [pattern |-> "sequential",
                steps   |-> << >>],
    twosup |-> [pattern |-> "hierarchical",
                steps   |-> << [name |-> "sup1", type |-> "supervisor"],
                               [name |-> "sup2", type |-> "supervisor"],
                               [name |-> "w1"] >>],
    cond   |-> [pattern |-> "sequential",
                steps   |-> << [name |-> "check", input |-> <<"lit", "draft">>,
                                conditions |-> <<"input is", "final">>],
                               [name |-> "publish"] >>],
    once   |-> [pattern |-> "sequential",
                steps   |-> << [name |-> "a", retries |-> 0, timeout |-> 1] >>],
    agents |-> [pattern |-> "sequential",
                steps   |-> << [name |-> "a", agent |-> <<"writer">>,
                                action |-> <<"draft">>],
                               [name |-> "b", action |-> <<"search">>,
                                input |-> <<"{{}}", "previous">>] >>] ]

WorkflowIds == DOMAIN Declared

\* a step object is identified by its workflow and its declaration position
StepsOf(w) == {<<w, i>> : i \in 1..Len(Declared[w].steps)}

Configs ==
  { [maxConcurrent  |-> n,
     defaultTimeout |-> DefaultTimeout,
     retryPolicy    |-> [maxRetries |-> DefaultMaxRetries]] : n \in 1..MaxConfigured }

\* an execution id a caller supplies in context.executionId
CtxIds == {<<"ctx", 1>>}

\* ---------------------------------------------------------------- the state

VARIABLES
  config,            \* WorkflowEngine.config
  workflows,         \* the Workflow objects createWorkflow built: id -> [pattern, steps]
  step,              \* the WorkflowStep objects the step arrays refer to
  executions,        \* WorkflowEngine.executions: executionId -> ExecutionResult
  activeExecutions,  \* WorkflowEngine.activeExecutions
  uuids,             \* number of ids uuidv4() has handed out
  call,              \* the execute() calls: position, locals, what each emitted
  order,             \* the keys of executions in the order the Map holds them
  clock,             \* Date.now(), in whole seconds
  sweeps,            \* how often the cleanup interval has fired
  history,           \* what the latest getHistory call returned
  promises,          \* the promises executeStep made, studied on their own
  shutdown,          \* the shutdown() call: where it stands
  orchestra,         \* the Orchestra that owns the engine: its calls and flags
  stored             \* the ids WorkflowEngine.workflows holds; its values are
                     \* the objects of  workflows

vars == <<config, workflows, step, executions, activeExecutions, uuids, call,
          order, clock, sweeps, history, promises, shutdown, orchestra, stored>>

\* what execute, the timers of the steps, the cleanup interval and getHistory
\* never touch
beside == <<promises, shutdown, orchestra, stored>>

\* ------------------------------------------------------------ pure helpers

\* Values are sequences of strings.  A step's declared input is undefined, a
\* template <<"{{}}", path>> (the string "{{path}}") or a literal <<"lit", v>>.
Undefined == <<"undefined">>
Null == <<"null">>

\* The ExecutionContext a caller passes: what the engine reads of it is the
\* executionId (line 123) and whether agentRegistry and mcpGateway are there
\* (lines 403 and 412).
Context(id, services) ==
  [executionId |-> id, agentRegistry |-> services, mcpGateway |-> services]

\* execute(workflow) without a context, or with one that has none of the three
NoContext == Context(Undefined, FALSE)

\* a step's declaration names an agent or an action
NamesService(c) == "agent" \in DOMAIN c \/ "action" \in DOMAIN c

\* The contexts callers pass with workflow w: none, or one with an id, and
\* for a workflow whose steps name agents or actions also one with the
\* registry and the gateway (for any other workflow the two are never read).
Contexts(w) ==
  {NoContext} \cup {Context(id, FALSE) : id \in CtxIds}
    \cup (IF \E i \in 1..Len(Declared[w].steps) : NamesService(Declared[w].steps[i])
          THEN {Context(id, TRUE) : id \in CtxIds} ELSE {})

\* JavaScript's  x.f || d  for a numeric field: d when f is absent or 0
OrDefault(rec, f, d) == IF f \in DOMAIN rec /\ rec[f] # 0 THEN rec[f] ELSE d

Field(rec, f, d) == IF f \in DOMAIN rec THEN rec[f] ELSE d

\* addStep: the step object built from the caller's values
addStep(cfg, name, c) ==
  [ name    |-> name,
    type    |-> Field(c, "type", "action"),
    agent   |-> Field(c, "agent", Undefined),
    action  |-> Field(c, "action", Undefined),
    input   |-> Field(c, "input", Undefined),
    conditions |-> Field(c, "conditions", Undefined),
    retries |-> OrDefault(c, "retries", cfg.retryPolicy.maxRetries),
    timeout |-> OrDefault(c, "timeout", cfg.defaultTimeout) ]

\* createWorkflow followed by the caller's addStep calls
createWorkflow(w) ==
  [ pattern |-> Declared[w].pattern,
    steps   |-> [i \in 1..Len(Declared[w].steps) |-> <<w, i>>] ]

\* faulty variant: the limit is compared with > instead of >=
AtCapacityOffByOne(active, cfg) ==
  "maxConcurrent" \in DOMAIN cfg /\ active > cfg.maxConcurrent

\* faulty variant: the limit is read from a key the configuration does not have
AtCapacityWrongKey(active, cfg) ==
  "maxConcurrentExecutions" \in DOMAIN cfg /\ active >= cfg.maxConcurrentExecutions

\* execute, line 118:  this.activeExecutions >= this.config.maxConcurrent
\* (a comparison with undefined is false)
AtCapacity(active, cfg) ==
  "maxConcurrent" \in DOMAIN cfg /\ active >= cfg.maxConcurrent

\* execute, line 123:  context?.executionId || uuidv4()
ExecutionId(ctx, n) ==
  IF ctx.executionId # Undefined THEN ctx.executionId ELSE <<"uuid", n + 1>>

\* Node clamps a timer delay below 1 ms to 1 ms
TimerDelay(ms) == IF ms >= 1 THEN ms ELSE 1

\* executeStep: the timeout timer is set first, the operation's timer second;
\* of two timers set in the same tick the shorter fires first, and of two
\* equal ones the one set first.  The timeout's timer rejects the promise,
\* the operation's resolves it.
TimerRace(timeout, delay) ==
  IF TimerDelay(OrDefault([t |-> timeout], "t", FallbackTimeout)) <= TimerDelay(delay)
  THEN "reject" ELSE "resolve"

\* delays Math.random() * 2000 may produce
Delays == {0, DelayRange \div 4, DelayRange - 1}

Fates(s) == {TimerRace(step[s].timeout, d) : d \in Delays}

\* executeStep's resolved value, lines 403-426.  A value is a sequence that
\* ends with the input's value; before it come the words of the result of
\* an agent (lines 405-411) or of an MCP tool (lines 414-419), or else the
\* step's name (lines 422-426).  No declaration here has params.
StepOutput(s, input, ctx) ==
  IF step[s].agent # Undefined /\ ctx.agentRegistry
    THEN <<"Executed">> \o step[s].action \o <<"by">> \o step[s].agent \o input
  ELSE IF step[s].action # Undefined /\ ctx.mcpGateway
    THEN <<"Executed MCP tool">> \o step[s].action \o input
  ELSE <<step[s].name>> \o input

TimedOut(s) == <<"Step", step[s].name, "timed out">>
UnknownPattern(p) == <<"Unknown orchestration pattern", p>>
NoSupervisor == <<"Hierarchical workflow requires a supervisor step">>
CapacityError == <<"Maximum concurrent executions reached">>

Ok(s, out)   == [step |-> step[s].name, success |-> TRUE, output |-> out]
Bad(s, err)  == [step |-> step[s].name, success |-> FALSE, error |-> err]

\* Map.set
MapSet(m, k, v) == [x \in DOMAIN m \cup {k} |-> IF x = k THEN v ELSE m[x]]

\* Map.set keeps the place of a key the Map already has and puts a new key last
KeysAfterSet(keys, k) ==
  IF \E i \in 1..Len(keys) : keys[i] = k THEN keys ELSE Append(keys, k)

\* Array.unshift
Unshift(arr, x) == <<x>> \o arr

Idle == [pc |-> "idle", emitted |-> <<>>]

\* executeSequential, line 201: the input is a string "{{...}}"
IsTemplate(input) == Len(input) = 2 /\ input[1] = "{{}}"

\* execute, line 122
Acquire(n) == n + 1

\* faulty variant: the slot is not given back
ReleaseSkipped(n) == n

\* execute, line 179
Release(n) == n - 1

\* ------------------------------------------------------------------ events

Started(eid, w)       == [type |-> "execution:started", executionId |-> eid, workflowId |-> w]
Completed(eid, r)     == [type |-> "execution:completed", executionId |-> eid, result |-> r]
Failed(eid, err)      == [type |-> "execution:failed", executionId |-> eid, error |-> err]
StepStarted(eid, n)   == [type |-> "step:started", executionId |-> eid, step |-> n]
StepCompleted(eid, n, out) ==
  [type |-> "step:completed", executionId |-> eid, step |-> n, output |-> out]
StepFailed(eid, n, err) ==
  [type |-> "step:failed", executionId |-> eid, step |-> n, error |-> err]

\* ---------------------------------------------------- one execution's frame

\* what an admitted call holds right after lines 122-127
Frame(w, ctx, eid) ==
  [ pc               |-> "running",
    wf               |-> w,
    context          |-> ctx,
    executionId      |-> eid,
    startTime        |-> clock,
    idx              |-> 1,          \* position of the loop's iterator
    results          |-> <<>>,
    previousOutput   |-> Null,
    phase            |-> "start",    \* hierarchical: "supervisor", then "workers"
    supervisorResult |-> Null,
    subTasks         |-> <<>>,
    messages         |-> <<>>,       \* sharedContext.messages
    pending          |-> {},         \* step attempts whose timers are set
    outcome          |-> [kind |-> "none"],
    invoked          |-> <<>>,       \* the executeStep calls made, in order
    settled          |-> <<>>,       \* the steps whose promises settled, in order
    emitted          |-> <<Started(eid, w)>> ]

Return(result) == [kind |-> "return", result |-> result]
Throw(err)     == [kind |-> "throw", error |-> err]

\* executeStep, lines 384-429: both timers are set.  The check of the step's
\* conditions (lines 386-390) never returns early: evaluateConditions is
\* constantly true.
Invoke(cs, slot, s, input) ==
  [cs EXCEPT !.pending = @ \cup {[slot |-> slot, step |-> s, input |-> input]},
             !.invoked = Append(@, s)]

\* faulty variant: a failed execution is announced as failed and as completed
FinishEmitsTwice(cs) ==
  IF cs.outcome.kind = "return"
  THEN LET result == [duration |-> clock - cs.startTime] @@ cs.outcome.result
       IN [returned |-> result, completedAt |-> clock] @@
          [cs EXCEPT !.pc = "returned",
                     !.emitted = Append(@, Completed(cs.executionId, result))]
  ELSE LET result == [success     |-> FALSE,
                      executionId |-> cs.executionId,
                      workflowId  |-> cs.wf,
                      error       |-> cs.outcome.error,
                      duration    |-> clock - cs.startTime]
       IN [returned |-> result, completedAt |-> clock] @@
          [cs EXCEPT !.pc = "returned",
                     !.emitted = Append(Append(@, Failed(cs.executionId, cs.outcome.error)),
                                        Completed(cs.executionId, result))]

\* faulty variant: the catch block reads a property the error does not have
FinishLosesError(cs) ==
  IF cs.outcome.kind = "return"
  THEN LET result == [duration |-> clock - cs.startTime] @@ cs.outcome.result
       IN [returned |-> result] @@
          [cs EXCEPT !.pc = "returned",
                     !.emitted = Append(@, Completed(cs.executionId, result))]
  ELSE LET result == [success     |-> FALSE,
                      executionId |-> cs.executionId,
                      workflowId  |-> cs.wf,
                      error       |-> Undefined,
                      duration    |-> clock - cs.startTime]
       IN [returned |-> result] @@
          [cs EXCEPT !.pc = "returned",
                     !.emitted = Append(@, Failed(cs.executionId, cs.outcome.error))]

\* faulty variant: the catch block stamps the failed result with an id of its own
FinishFreshId(cs) ==
  IF cs.outcome.kind = "return"
  THEN LET result == [duration |-> clock - cs.startTime] @@ cs.outcome.result
       IN [returned |-> result] @@
          [cs EXCEPT !.pc = "returned",
                     !.emitted = Append(@, Completed(cs.executionId, result))]
  ELSE LET result == [success     |-> FALSE,
                      executionId |-> <<"uuid", 0>>,
                      workflowId  |-> cs.wf,
                      error       |-> cs.outcome.error,
                      duration    |-> clock - cs.startTime]
       IN [returned |-> result] @@
          [cs EXCEPT !.pc = "returned",
                     !.emitted = Append(@, Failed(cs.executionId, cs.outcome.error))]

\* execute, lines 154-160 and 162-176: the executor's promise has settled
Finish(cs) ==
  IF cs.outcome.kind = "return"
  THEN LET result == [duration |-> clock - cs.startTime] @@ cs.outcome.result
       IN [returned |-> result, completedAt |-> clock] @@
          [cs EXCEPT !.pc = "returned",
                     !.emitted = Append(@, Completed(cs.executionId, result))]
  ELSE LET result == [success     |-> FALSE,
                      executionId |-> cs.executionId,
                      workflowId  |-> cs.wf,
                      error       |-> cs.outcome.error,
                      duration    |-> clock - cs.startTime]
       IN [returned |-> result, completedAt |-> clock] @@
          [cs EXCEPT !.pc = "returned",
                     !.emitted = Append(@, Failed(cs.executionId, cs.outcome.error))]

\* ------------------------------------------------------------- sequential

\* executeSequential, lines 195-207 and 241-246: the loop's next iteration.
\* The iterator reads the array as it is now.
SequentialNext(cs, wfs, st) ==
  IF cs.idx <= Len(wfs[cs.wf].steps)
  THEN LET s     == wfs[cs.wf].steps[cs.idx]
           input == IF IsTemplate(st[s].input) THEN cs.previousOutput ELSE st[s].input
       IN Invoke([cs EXCEPT !.emitted = Append(@, StepStarted(cs.executionId, st[s].name))],
                 cs.idx, s, input)
  ELSE [cs EXCEPT !.outcome = Return([success     |-> TRUE,
                                      executionId |-> cs.executionId,
                                      workflowId  |-> cs.wf,
                                      results     |-> cs.results])]

\* lines 208-220: the step's promise resolved
SequentialResolved(cs, p) ==
  LET out == StepOutput(p.step, p.input, cs.context)
  IN [cs EXCEPT !.pending = {},
                !.results = Append(@, Ok(p.step, out)),
                !.previousOutput = out,
                !.emitted = Append(@, StepCompleted(cs.executionId, step[p.step].name, out)),
                !.idx = @ + 1]

\* faulty variant: a step that is out of retries is skipped, not rethrown
SequentialRejectedSkips(cs, p, st) ==
  [cs EXCEPT !.pending = {},
             !.emitted = Append(@, StepFailed(cs.executionId, step[p.step].name,
                                              TimedOut(p.step))),
             !.idx = @ + 1]

\* lines 222-237: the step's promise rejected
SequentialRejected(cs, p, st) ==
  LET failed == [cs EXCEPT !.pending = {},
                           !.emitted = Append(@, StepFailed(cs.executionId,
                                                           step[p.step].name,
                                                           TimedOut(p.step)))]
  IN IF st[p.step].retries > 0
     THEN [failed EXCEPT !.idx = @ + 1]
     ELSE [failed EXCEPT !.outcome = Throw(TimedOut(p.step))]

\* lines 230-234: what the catch block does to the shared step and array
RetriesAfter(st, s) ==
  IF st[s].retries > 0 THEN [st EXCEPT ![s].retries = @ - 1] ELSE st

StepsAfter(wfs, st, w, s) ==
  IF st[s].retries > 0 THEN [wfs EXCEPT ![w].steps = Unshift(@, s)] ELSE wfs


\* --------------------------------------------------------------- parallel

\* executeParallel, lines 261-275: every step is invoked with its own input
RECURSIVE InvokeAll(_, _, _, _)
InvokeAll(cs, steps, st, i) ==
  IF i > Len(steps) THEN cs
  ELSE InvokeAll(Invoke(cs, i, steps[i], st[steps[i]].input), steps, st, i + 1)

\* faulty variant: the execution succeeds when some step succeeded
ParallelResultAnySuccess(cs) ==
  [success     |-> \E i \in DOMAIN cs.results : cs.results[i].success,
   executionId |-> cs.executionId,
   workflowId  |-> cs.wf,
   results     |-> cs.results]

\* lines 275-283: Promise.all settled
ParallelResult(cs) ==
  LET hasFailures == \E i \in DOMAIN cs.results : ~cs.results[i].success
  IN [success     |-> ~hasFailures,
      executionId |-> cs.executionId,
      workflowId  |-> cs.wf,
      results     |-> cs.results]

\* faulty variant: Promise.race in place of Promise.all
ParallelJoinFirst(cs) ==
  IF cs.pending = {} \/ DOMAIN cs.results # {}
  THEN [cs EXCEPT !.outcome = Return(ParallelResult(cs))] ELSE cs

ParallelJoin(cs) ==
  IF cs.pending = {} THEN [cs EXCEPT !.outcome = Return(ParallelResult(cs))] ELSE cs

ParallelStart(cs, wfs, st) ==
  ParallelJoin(InvokeAll(cs, wfs[cs.wf].steps, st, 1))

\* faulty variant: the outcomes are collected in the order of completion
ParallelSettledInCompletionOrder(cs, p, fate) ==
  LET r == IF fate = "resolve" THEN Ok(p.step, StepOutput(p.step, p.input, cs.context))
                                 ELSE Bad(p.step, TimedOut(p.step))
  IN ParallelJoin([cs EXCEPT !.pending = @ \ {p},
                             !.results = MapSet(@, Cardinality(DOMAIN @) + 1, r)])

\* lines 263-272: one step's promise settled; its place in the array is its
\* place among the promises
ParallelSettled(cs, p, fate) ==
  LET r == IF fate = "resolve" THEN Ok(p.step, StepOutput(p.step, p.input, cs.context))
                                 ELSE Bad(p.step, TimedOut(p.step))
  IN ParallelJoin([cs EXCEPT !.pending = @ \ {p},
                             !.results = MapSet(@, p.slot, r)])

\* ----------------------------------------------------------- hierarchical

\* Array.find / Array.filter on the step's type
Supervisors(steps, st) == {i \in 1..Len(steps) : st[steps[i]].type = "supervisor"}

RECURSIVE SubTasks(_, _)
SubTasks(steps, st) ==
  IF steps = <<>> THEN <<>>
  ELSE IF st[Head(steps)].type # "supervisor"
       THEN <<Head(steps)>> \o SubTasks(Tail(steps), st)
       ELSE SubTasks(Tail(steps), st)

Min(S) == CHOOSE x \in S : \A y \in S : x <= y

\* faulty variant: the first declared step is run as the supervisor
HierarchicalStartFirstStep(cs, wfs, st) ==
  LET steps == wfs[cs.wf].steps
      sups  == Supervisors(steps, st)
  IN IF sups = {}
     THEN [cs EXCEPT !.outcome = Throw(NoSupervisor)]
     ELSE Invoke([cs EXCEPT !.phase = "supervisor"],
                 0, steps[1], Null)

\* executeHierarchical, lines 296-304
HierarchicalStart(cs, wfs, st) ==
  LET steps == wfs[cs.wf].steps
      sups  == Supervisors(steps, st)
  IN IF sups = {}
     THEN [cs EXCEPT !.outcome = Throw(NoSupervisor)]
     ELSE Invoke([cs EXCEPT !.phase = "supervisor"],
                 0, steps[Min(sups)], Null)

\* lines 314-328: the loop over the sub-tasks
HierarchicalNext(cs) ==
  IF cs.idx <= Len(cs.subTasks)
  THEN Invoke(cs, cs.idx, cs.subTasks[cs.idx], cs.supervisorResult)
  ELSE [cs EXCEPT !.outcome = Return([success     |-> TRUE,
                                      executionId |-> cs.executionId,
                                      workflowId  |-> cs.wf,
                                      results     |-> cs.results])]

\* faulty variant: a failed supervisor is ignored and the workers run anyway
HierarchicalSettledIgnoresSupervisor(cs, p, fate, wfs, st) ==
  LET out  == StepOutput(p.step, p.input, cs.context)
      done == [cs EXCEPT !.pending = {}]
  IN IF cs.phase = "supervisor"
     THEN HierarchicalNext([done EXCEPT !.phase = "workers",
                                        !.supervisorResult = IF fate = "reject" THEN Null ELSE out,
                                        !.subTasks = SubTasks(wfs[cs.wf].steps, st),
                                        !.results = IF fate = "reject" THEN <<>>
                                                    ELSE <<Ok(p.step, out)>>])
     ELSE IF fate = "reject"
          THEN [done EXCEPT !.outcome = Throw(TimedOut(p.step))]
          ELSE HierarchicalNext([done EXCEPT !.results = Append(@, Ok(p.step, out)),
                                             !.idx = @ + 1])

\* lines 304-321: the awaited step settled
HierarchicalSettled(cs, p, fate, wfs, st) ==
  LET out  == StepOutput(p.step, p.input, cs.context)
      done == [cs EXCEPT !.pending = {}]
  IN IF fate = "reject"
     THEN [done EXCEPT !.outcome = Throw(TimedOut(p.step))]
     ELSE IF cs.phase = "supervisor"
          THEN HierarchicalNext([done EXCEPT !.phase = "workers",
                                             !.supervisorResult = out,
                                             !.subTasks = SubTasks(wfs[cs.wf].steps, st),
                                             !.results = <<Ok(p.step, out)>>])
          ELSE HierarchicalNext([done EXCEPT !.results = Append(@, Ok(p.step, out)),
                                             !.idx = @ + 1])

\* ---------------------------------------------------------- collaborative

\* the sharedContext object handed to every step
SharedContext == <<"sharedContext">>

\* executeCollaborative, lines 342-346 and 355-358: the object SharedContext
\* refers to, as it is now.  Nothing ever writes to its state.
sharedContext(cs) ==
  [executionId |-> cs.executionId,
   messages    |-> cs.messages,
   state       |-> <<>>]

\* executeCollaborative, lines 351-352 and 367-373
CollaborativeNext(cs, wfs) ==
  IF cs.idx <= Len(wfs[cs.wf].steps)
  THEN Invoke(cs, cs.idx, wfs[cs.wf].steps[cs.idx], SharedContext)
  ELSE [cs EXCEPT !.outcome =
          Return([success     |-> TRUE,
                  executionId |-> cs.executionId,
                  workflowId  |-> cs.wf,
                  results     |-> cs.results,
                  metadata    |-> [sharedContext |-> sharedContext(cs)]])]

\* faulty variant: one message log for the whole engine
CollaborativeSettledEngineLog(cs, p, fate, wfs, st) ==
  LET out  == StepOutput(p.step, p.input, cs.context)
      done == [cs EXCEPT !.pending = {}]
      logs == {call[d].messages : d \in {d \in Calls : call[d].pc \in {"running", "returned"}}}
      log  == CHOOSE l \in logs : \A m \in logs : Len(m) <= Len(l)
  IN IF fate = "reject"
     THEN [done EXCEPT !.outcome = Throw(TimedOut(p.step))]
     ELSE CollaborativeNext(
            [done EXCEPT !.messages = Append(log, [from |-> st[p.step].agent, content |-> out]),
                         !.results  = Append(@, Ok(p.step, out)),
                         !.idx      = @ + 1],
            wfs)

\* faulty variant: the message log keeps only the latest message
CollaborativeSettledKeepsLatest(cs, p, fate, wfs, st) ==
  LET out  == StepOutput(p.step, p.input, cs.context)
      done == [cs EXCEPT !.pending = {}]
  IN IF fate = "reject"
     THEN [done EXCEPT !.outcome = Throw(TimedOut(p.step))]
     ELSE CollaborativeNext(
            [done EXCEPT !.messages = <<[from |-> st[p.step].agent, content |-> out]>>,
                         !.results  = Append(@, Ok(p.step, out)),
                         !.idx      = @ + 1],
            wfs)

\* lines 352-364
CollaborativeSettled(cs, p, fate, wfs, st) ==
  LET out  == StepOutput(p.step, p.input, cs.context)
      done == [cs EXCEPT !.pending = {}]
  IN IF fate = "reject"
     THEN [done EXCEPT !.outcome = Throw(TimedOut(p.step))]
     ELSE CollaborativeNext(
            [done EXCEPT !.messages = Append(@, [from |-> st[p.step].agent, content |-> out]),
                         !.results  = Append(@, Ok(p.step, out)),
                         !.idx      = @ + 1],
            wfs)

\* ------------------------------------------------------------- the engine

Handled == {"sequential", "parallel", "hierarchical", "collaborative"}

\* execute, lines 133-152: the executor runs up to its first await
Dispatch(cs, wfs, st) ==
  CASE wfs[cs.wf].pattern = "sequential"    -> SequentialNext(cs, wfs, st)
    [] wfs[cs.wf].pattern = "parallel"      -> ParallelStart(cs, wfs, st)
    [] wfs[cs.wf].pattern = "hierarchical"  -> HierarchicalStart(cs, wfs, st)
    [] wfs[cs.wf].pattern = "collaborative" -> CollaborativeNext(cs, wfs)
    [] OTHER -> [cs EXCEPT !.outcome = Throw(UnknownPattern(wfs[cs.wf].pattern))]

\* the promise of step attempt p settled (fate: resolved by the operation's
\* timer, or rejected by the timeout's) and the executor ran on to its next
\* await
Settled(cs, p, fate, wfs, st) ==
  LET ds == [cs EXCEPT !.settled = Append(@, p.step)]
  IN CASE wfs[cs.wf].pattern = "sequential"    ->
            IF fate = "resolve"
            THEN SequentialNext(SequentialResolved(ds, p), wfs, st)
            ELSE IF SequentialRejected(ds, p, st).outcome.kind = "none"
                 THEN SequentialNext(SequentialRejected(ds, p, st),
                                     StepsAfter(wfs, st, cs.wf, p.step),
                                     RetriesAfter(st, p.step))
                 ELSE SequentialRejected(ds, p, st)
       [] wfs[cs.wf].pattern = "parallel"      -> ParallelSettled(ds, p, fate)
       [] wfs[cs.wf].pattern = "hierarchical"  -> HierarchicalSettled(ds, p, fate, wfs, st)
       [] wfs[cs.wf].pattern = "collaborative" -> CollaborativeSettled(ds, p, fate, wfs, st)

\* the components the Orchestra's constructor builds, orchestra.ts 40-43
Components == {"mcpGateway", "agentRegistry", "workflowEngine", "observability"}

\* the constructor's fields, and one workflow of ws built with createWorkflow
\* and addStep
Constructed(ws) ==
  /\ \E w \in ws :
       /\ workflows = (w :> createWorkflow(w))
       /\ stored = {w}
       /\ step = [s \in StepsOf(w) |->
                    addStep(config, Declared[w].steps[s[2]].name, Declared[w].steps[s[2]])]
  /\ executions = <<>>
  /\ activeExecutions = 0
  /\ uuids = 0
  /\ call = [c \in Calls |-> Idle]
  /\ order = <<>>
  /\ clock = StartOfRun
  /\ sweeps = 0
  /\ history = [limit |-> 0, returned |-> <<>>]
  /\ promises = <<>>
  /\ shutdown = [pc |-> "idle", waited |-> FALSE]
  /\ orchestra = [execute |-> [c \in Calls |-> [pc |-> "idle"]],
                  isInitialized |-> FALSE,
                  initialized |-> [k \in Components |-> 0],
                  agents |-> {},
                  supervisors |-> 0,
                  discovery |-> 0,
                  discovered |-> 0,
                  initialize |-> [c \in Calls |-> [pc |-> "idle"]],
                  registerAgent |-> [pc |-> "idle"],
                  shutdown |-> [pc |-> "idle"],
                  jobs |-> <<>>]

\* the constructor, then one workflow built with createWorkflow and addStep
Init ==
  /\ config \in Configs
  /\ Constructed(WorkflowIds)

\* the executor's promise has settled: lines 154-160 or 162-176, then 179
Settle(c, cs, wfs, st, active) ==
  /\ call' = [call EXCEPT ![c] = Finish(cs)]
  /\ executions' = MapSet(executions, cs.executionId, Finish(cs).returned)
  /\ order' = KeysAfterSet(order, cs.executionId)
  /\ activeExecutions' = Release(active)
  /\ workflows' = wfs
  /\ step' = st

\* the executor is waiting for a timer
Suspend(c, cs, wfs, st, active) ==
  /\ call' = [call EXCEPT ![c] = cs]
  /\ activeExecutions' = active
  /\ workflows' = wfs
  /\ step' = st
  /\ UNCHANGED <<executions, order>>

\* faulty variant: the counter is incremented before the limit is checked
RejectCounted(c, w, ctx) ==
  /\ call' = [call EXCEPT ![c] = [pc |-> "rejected", wf |-> w, context |-> ctx,
                                  thrown |-> CapacityError, emitted |-> <<>>]]
  /\ activeExecutions' = Acquire(activeExecutions)
  /\ UNCHANGED <<config, workflows, step, executions, uuids, order, clock, sweeps, history,
                 beside>>

\* execute, lines 118-120: the call throws
Reject(c, w, ctx) ==
  /\ call' = [call EXCEPT ![c] = [pc |-> "rejected", wf |-> w, context |-> ctx,
                                  thrown |-> CapacityError, emitted |-> <<>>]]
  /\ UNCHANGED <<config, workflows, step, executions, activeExecutions, uuids,
                 order, clock, sweeps, history, beside>>

\* execute(workflow, context), lines 113-152, up to the first await.  An
\* unknown pattern throws inside the try block before any await, so the catch
\* and finally blocks run in the same stretch.
execute(c, w, ctx) ==
  /\ call[c].pc = "idle"
  /\ IF AtCapacity(activeExecutions, config)
     THEN Reject(c, w, ctx)
     ELSE LET eid == ExecutionId(ctx, uuids)
              cs  == Dispatch(Frame(w, ctx, eid), workflows, step)
          IN /\ uuids' = IF ctx.executionId = Undefined THEN uuids + 1 ELSE uuids
             /\ IF workflows[w].pattern \notin Handled
                THEN Settle(c, cs, workflows, step, Acquire(activeExecutions))
                ELSE Suspend(c, cs, workflows, step, Acquire(activeExecutions))
             /\ UNCHANGED <<config, clock, sweeps, history, beside>>

\* a caller's execute(workflow, context); the calls are numbered in the order
\* they are made
Execute(c, w, ctx) ==
  /\ \A d \in Calls : d < c => call[d].pc # "idle"
  /\ execute(c, w, ctx)

\* the await of line 135-147 resumes on a promise that settled without a timer
Resume(c) ==
  /\ call[c].pc = "running"
  /\ call[c].outcome.kind # "none"
  /\ Settle(c, call[c], workflows, step, activeExecutions)
  /\ UNCHANGED <<config, uuids, clock, sweeps, history, beside>>

\* One of the two timers of step attempt p fires first and settles its
\* promise; the continuations this wakes run up to the next await.
TimerFires(c, p, fate) ==
  /\ call[c].pc = "running"
  /\ p \in call[c].pending
  /\ fate \in Fates(p.step)
  /\ LET w   == call[c].wf
         cs  == Settled(call[c], p, fate, workflows, step)
         retried == workflows[w].pattern = "sequential" /\ fate = "reject"
         wfs == IF retried THEN StepsAfter(workflows, step, w, p.step) ELSE workflows
         st  == IF retried THEN RetriesAfter(step, p.step) ELSE step
     IN IF cs.outcome.kind # "none"
        THEN Settle(c, cs, wfs, st, activeExecutions)
        ELSE Suspend(c, cs, wfs, st, activeExecutions)
  /\ UNCHANGED <<config, uuids, clock, sweeps, history, beside>>

\* the step attempts of call c whose timers are set
Pending(c) == IF call[c].pc = "running" THEN call[c].pending ELSE {}

Next ==
  \/ \E c \in Calls, w \in DOMAIN workflows : \E ctx \in Contexts(w) : Execute(c, w, ctx)
  \/ \E c \in Calls : Resume(c)
  \/ \E c \in Calls : \E p \in Pending(c), fate \in {"resolve", "reject"} :
       TimerFires(c, p, fate)

Spec == Init /\ [][Next]_vars


\* a timer firing or a settled promise resuming its await
Progress ==
  \/ \E c \in Calls : Resume(c)
  \/ \E c \in Calls : \E p \in Pending(c), fate \in {"resolve", "reject"} :
       TimerFires(c, p, fate)

\* Node's event loop: while a timer is set or a settled promise is awaited,
\* one of them is eventually served
FairSpec == Spec /\ WF_vars(Progress)

\* the execute() calls by where they stand
Running  == {c \in Calls : call[c].pc = "running"}
Returned == {c \in Calls : call[c].pc = "returned"}
Rejected == {c \in Calls : call[c].pc = "rejected"}
Submitted == {c \in Calls : call[c].pc # "idle"}

\* --------------------------------------------------- the ledger over time

\* Times are whole seconds; the program's constants are milliseconds.
Seconds(ms) == ms \div 1000

\* Array.from(this.executions.values())
Values(exec, keys) == [i \in 1..Len(keys) |-> exec[keys[i]]]

\* Array.sort with (a, b) => (b.duration || 0) - (a.duration || 0): r goes
\* behind every result whose duration is not smaller (the sort is stable)
RECURSIVE InsertByDuration(_, _)
InsertByDuration(sorted, r) ==
  IF sorted = <<>> THEN <<r>>
  ELSE IF OrDefault(Head(sorted), "duration", 0) >= OrDefault(r, "duration", 0)
       THEN <<Head(sorted)>> \o InsertByDuration(Tail(sorted), r)
       ELSE <<r>> \o sorted

RECURSIVE SortByDuration(_)
SortByDuration(rs) ==
  IF rs = <<>> THEN <<>>
  ELSE InsertByDuration(SortByDuration(SubSeq(rs, 1, Len(rs) - 1)), rs[Len(rs)])

\* Array.slice(0, limit), limit >= 0
Slice(rs, limit) == SubSeq(rs, 1, IF limit < Len(rs) THEN limit ELSE Len(rs))

\* getHistory(limit), lines 444-450
getHistory(limit, exec, keys) == Slice(SortByDuration(Values(exec, keys)), limit)

\* cleanupOldExecutions, lines 455-464: the keys that stay
KeptBySweep(exec, now) ==
  {k \in DOMAIN exec :
     ~(OrDefault(exec[k], "duration", 0) < now - Seconds(RetentionMs))}

\* the second in which the interval set by initialize fires next
SweepDue == StartOfRun + (sweeps + 1) * Seconds(SweepEveryMs)

\* a second passes while an execution is in flight: the event loop waits
\* for the steps' timers, or a caller or a callback keeps the thread
Tick ==
  /\ Running # {}
  /\ \A c \in Running : clock + 1 - call[c].startTime <= MaxDuration
  /\ clock + 1 <= SweepDue
  /\ clock' = clock + 1
  /\ UNCHANGED <<config, workflows, step, executions, activeExecutions, uuids, call,
                 order, sweeps, history, beside>>

\* nothing is in flight: the next thing to happen is the cleanup interval
Wait ==
  /\ Running = {}
  /\ sweeps < MaxSweeps
  /\ clock < SweepDue
  /\ clock' = SweepDue
  /\ UNCHANGED <<config, workflows, step, executions, activeExecutions, uuids, call,
                 order, sweeps, history, beside>>

\* the interval of initialize fires: cleanupOldExecutions, lines 455-469
Sweep ==
  /\ sweeps < MaxSweeps
  /\ clock = SweepDue
  /\ \A c \in Running : call[c].outcome.kind = "none"
  /\ sweeps' = sweeps + 1
  /\ executions' = [k \in KeptBySweep(executions, clock) |-> executions[k]]
  /\ order' = SelectSeq(order, LAMBDA k : k \in KeptBySweep(executions, clock))
  /\ UNCHANGED <<config, workflows, step, activeExecutions, uuids, call, clock, history,
                 beside>>

\* a caller asks for the history, at any point of the caller's code
GetHistory(limit) ==
  /\ history' = [limit |-> limit, returned |-> getHistory(limit, executions, order)]
  /\ UNCHANGED <<config, workflows, step, executions, activeExecutions, uuids, call,
                 order, clock, sweeps, beside>>

\* the limits callers pass to getHistory
Limits == 0..MaxCalls

\* an initialized engine with room for every call, and one workflow: one
\* whose steps always succeed, or one without steps
LedgerInit ==
  /\ Init
  /\ DOMAIN workflows \subseteq {"parprev", "empty"}
  /\ config.maxConcurrent = MaxConfigured

LedgerNext ==
  \/ Next
  \/ Tick
  \/ Wait
  \/ Sweep
  \/ \E limit \in Limits : GetHistory(limit)

LedgerSpec == LedgerInit /\ [][LedgerNext]_vars

\* ------------------------------------- engines without a configured maximum

\* new WorkflowEngine({}), as OrchestraV2 constructs it
EmptyConfig == [k \in {} |-> 0]

\* new Orchestra({workflows: {defaultTimeout, retryPolicy}}): mergeConfig
\* spreads one level only, so the caller's workflows object replaces the
\* default one and maxConcurrent is gone
PartialConfig ==
  [defaultTimeout |-> DefaultTimeout,
   retryPolicy    |-> [maxRetries |-> DefaultMaxRetries]]

\* With the empty configuration addStep cannot read retryPolicy.maxRetries,
\* so the workflow is one without steps.
OpenInit ==
  \/ config = EmptyConfig /\ Constructed({"empty"})
  \/ config = PartialConfig /\ Constructed({"par", "collab", "cond"})

OpenSpec == OpenInit /\ [][Next]_vars

\* ------------------------------------------------------------- shutdown

\* shutdown, line 490: the loop is left when  activeExecutions > 0  is false
Drained(active) == ~(active > 0)

\* shutdown, lines 490-500, from the loop's test on: either set the timer of
\* line 492 and wait, or clear both Maps and return.  (removeAllListeners
\* detaches the listeners; emitted records what the engine emits.)
Drain ==
  IF Drained(activeExecutions)
  THEN /\ stored' = {}
       /\ executions' = [k \in {} |-> 0]
       /\ order' = <<>>
       /\ shutdown' = [shutdown EXCEPT !.pc = "returned"]
  ELSE /\ shutdown' = [pc |-> "waiting", waited |-> TRUE]
       /\ UNCHANGED <<stored, executions, order>>

\* a caller calls shutdown(), at any point of the caller's code
Shutdown ==
  /\ shutdown.pc = "idle"
  /\ Drain
  /\ UNCHANGED <<config, workflows, step, activeExecutions, uuids, call, clock, sweeps,
                 history, promises, orchestra>>

\* the continuation of an Orchestra call, queued as a promise job
Job(op, c) == [op |-> op, call |-> c]

\* the timer of line 492 fires and the loop tests the counter again; when
\* shutdown returns, an Orchestra.shutdown awaiting it goes on in a promise job
ShutdownWakes ==
  /\ shutdown.pc = "waiting"
  /\ \A c \in Running : call[c].outcome.kind = "none"
  /\ Drain
  /\ orchestra' = IF Drained(activeExecutions) /\ orchestra.shutdown.pc = "workflowEngine"
                  THEN [orchestra EXCEPT !.jobs = Append(@, Job("shutdown", 0))]
                  ELSE orchestra
  /\ UNCHANGED <<config, workflows, step, activeExecutions, uuids, call, clock, sweeps,
                 history, promises>>

\* the caller has the outcome of call c and will call execute again, with
\* the workflow object it holds
CallAgain(c) ==
  /\ call[c].pc \in {"returned", "rejected"}
  /\ call' = [call EXCEPT ![c] = Idle]
  /\ UNCHANGED <<config, workflows, step, executions, activeExecutions, uuids, order,
                 clock, sweeps, history, promises, shutdown, orchestra, stored>>

\* an engine with one workflow whose executions shutdown may have to wait for
DrainInit ==
  /\ Init
  /\ DOMAIN workflows \subseteq {"par", "collab", "empty"}

\* Callers keep calling execute for as long as they like, and pass the
\* execution's id in the context, as Orchestra.execute does.
DrainNext ==
  \/ \E c \in Calls, w \in DOMAIN workflows, id \in CtxIds :
       Execute(c, w, Context(id, FALSE))
  \/ \E c \in Calls : Resume(c)
  \/ \E c \in Calls : \E p \in Pending(c), fate \in {"resolve", "reject"} :
       TimerFires(c, p, fate)
  \/ \E c \in Calls : CallAgain(c)
  \/ Shutdown
  \/ ShutdownWakes

DrainSpec == DrainInit /\ [][DrainNext]_vars

\* The event loop serves the steps' timers and the settled promises, so every
\* admitted execution terminates; and the timer shutdown waits on is taken to
\* find the engine idle if it is idle again and again.
DrainFairSpec == DrainSpec /\ WF_vars(Progress) /\ SF_vars(ShutdownWakes)

\* -------------------------------------- executeStep's promise and timers

\* evaluateConditions, lines 435-439
evaluateConditions(conditions, input) == TRUE

\* faulty variant: a settled promise takes the later value
resolveOverrides(p, value) == [p EXCEPT !.state = "fulfilled", !.value = value]

\* the resolve function of a promise: only a pending promise settles
resolve(p, value) ==
  IF p.state = "pending" THEN [p EXCEPT !.state = "fulfilled", !.value = value] ELSE p

\* the reject function of a promise
reject(p, err) ==
  IF p.state = "pending" THEN [p EXCEPT !.state = "rejected", !.value = err] ELSE p

\* clearTimeout: a timer that is still set is cancelled, any other is left alone
clearTimeout(timer) == IF timer = "set" THEN "cleared" ELSE timer

\* executeStep(step, input, context), lines 384-429, with the delay
\* Math.random() gave: the promise it returns and the two timers it has set
executeStep(s, input, ctx, delay) ==
  IF step[s].conditions # Undefined /\ ~evaluateConditions(step[s].conditions, input)
  THEN [step |-> s, input |-> input, context |-> ctx, delay |-> delay,
        state |-> "fulfilled", value |-> <<"skipped">>,
        timeout |-> "none", operation |-> "none"]
  ELSE [step |-> s, input |-> input, context |-> ctx, delay |-> delay,
        state |-> "pending", value |-> Undefined,
        timeout |-> "set", operation |-> "set"]

\* an executor calls executeStep
ExecuteStep(s, ctx, delay) ==
  /\ Len(promises) < MaxAttempts
  /\ promises' = Append(promises, executeStep(s, step[s].input, ctx, delay))
  /\ UNCHANGED <<config, workflows, step, executions, activeExecutions, uuids, call,
                 order, clock, sweeps, history, shutdown, orchestra, stored>>

\* lines 394-396: the timeout's timer fires.  It is due first when its delay
\* is not longer than the operation's.
TimeoutFires(i) ==
  /\ promises[i].timeout = "set"
  /\ TimerRace(step[promises[i].step].timeout, promises[i].delay) = "reject"
  /\ promises' = [promises EXCEPT ![i] =
                    reject([@ EXCEPT !.timeout = "fired"], TimedOut(@.step))]
  /\ UNCHANGED <<config, workflows, step, executions, activeExecutions, uuids, call,
                 order, clock, sweeps, history, shutdown, orchestra, stored>>

\* lines 399-428: the operation's timer fires, first or after the timeout's
OperationFires(i) ==
  /\ promises[i].operation = "set"
  /\ \/ TimerRace(step[promises[i].step].timeout, promises[i].delay) = "resolve"
     \/ promises[i].timeout = "fired"
  /\ promises' = [promises EXCEPT ![i] =
                    resolve([@ EXCEPT !.operation = "fired",
                                      !.timeout = clearTimeout(@)],
                            StepOutput(@.step, @.input, @.context))]
  /\ UNCHANGED <<config, workflows, step, executions, activeExecutions, uuids, call,
                 order, clock, sweeps, history, shutdown, orchestra, stored>>

\* an engine with one workflow whose steps executeStep is called with
StepInit ==
  /\ Init
  /\ DOMAIN workflows \subseteq {"seq", "agents"}
  /\ config.maxConcurrent = MaxConfigured

TimersFire ==
  \E i \in DOMAIN promises : TimeoutFires(i) \/ OperationFires(i)

StepNext ==
  \/ \E s \in DOMAIN step, delay \in Delays : \E ctx \in Contexts(s[1]) :
       ExecuteStep(s, ctx, delay)
  \/ \E i \in DOMAIN promises : TimeoutFires(i)
  \/ \E i \in DOMAIN promises : OperationFires(i)

StepSpec == StepInit /\ [][StepNext]_vars

\* a timer that is set fires when its delay has passed
StepFairSpec == StepSpec /\ WF_vars(TimersFire)

\* ------------------------------------------------------ Orchestra.execute

\* the id Orchestra.execute draws with uuidv4() for its c-th call, line 117
OrchestraId(c) == <<"orchestra", c>>

\* an id the workflow store does not hold
UnknownId == "unknown"

NotFound(id) == <<"Workflow", id, "not found">>

\* getWorkflow, lines 100-108: the promise it returns
getWorkflow(ids, id) ==
  IF id \in ids THEN [ok |-> TRUE, workflow |-> id]
                        ELSE [ok |-> FALSE, error |-> NotFound(id)]

\* Orchestra.execute, lines 143-155: the engine's promise resolved
OrchestraCompleted(result) == [pc |-> "returned", settled |-> "resolved", result |-> result]

\* faulty variant: the catch block throws the error on
OrchestraCaughtRethrows(c, err) == [pc |-> "returned", settled |-> "rejected", error |-> err]

\* Orchestra.execute, lines 157-173: the catch block.  (The clock stands still
\* here, so the duration it stamps is left out.)
OrchestraCaught(c, err) ==
  [pc |-> "returned", settled |-> "resolved",
   result |-> [success |-> FALSE, executionId |-> OrchestraId(c), error |-> err]]

\* Orchestra.execute has been called for the d-th time: the calls are numbered
\* in the order they are made
OrchestraCalled(d) == call[d].pc # "idle" \/ orchestra.execute[d].pc # "idle"

\* Orchestra.execute(id) with a string, lines 116-122: up to the await of
\* getWorkflow
OrchestraLooksUp(c, id) ==
  /\ orchestra.execute[c].pc = "idle"
  /\ call[c].pc = "idle"
  /\ \A d \in Calls : d < c => OrchestraCalled(d)
  /\ orchestra' = [orchestra EXCEPT !.execute[c] =
                     [pc |-> "lookup", found |-> getWorkflow(stored, id)]]
  /\ UNCHANGED <<config, workflows, step, executions, activeExecutions, uuids, call,
                 order, clock, sweeps, history, promises, shutdown, stored>>

\* Orchestra.execute, lines 125-141: it calls engine.execute with its own id
\* in the context, at once when it was given the workflow itself, or when
\* the lookup has resolved
OrchestraCalls(c, w) ==
  /\ \/ orchestra.execute[c].pc = "idle" /\ \A d \in Calls : d < c => OrchestraCalled(d)
     \/ /\ orchestra.execute[c].pc = "lookup"
        /\ orchestra.execute[c].found.ok
        /\ orchestra.execute[c].found.workflow = w
  /\ execute(c, w, Context(OrchestraId(c), TRUE))

\* Orchestra.execute, lines 143-173: the awaited promise has settled and the
\* try block ends or the catch block runs
OrchestraSettles(c) ==
  /\ orchestra.execute[c].pc # "returned"
  /\ \/ call[c].pc = "returned"
     \/ call[c].pc = "rejected"
     \/ orchestra.execute[c].pc = "lookup" /\ ~orchestra.execute[c].found.ok
  /\ orchestra' = [orchestra EXCEPT !.execute[c] =
                     IF call[c].pc = "returned" THEN OrchestraCompleted(call[c].returned)
                     ELSE IF call[c].pc = "rejected" THEN OrchestraCaught(c, call[c].thrown)
                     ELSE OrchestraCaught(c, @.found.error)]
  /\ UNCHANGED <<config, workflows, step, executions, activeExecutions, uuids, call,
                 order, clock, sweeps, history, promises, shutdown, stored>>

\* an Orchestra whose engine holds one workflow
OrchestraInit ==
  /\ Init
  /\ DOMAIN workflows \subseteq {"par", "agents", "empty"}

OrchestraNext ==
  \/ \E c \in Calls, id \in DOMAIN workflows \cup {UnknownId} : OrchestraLooksUp(c, id)
  \/ \E c \in Calls, w \in DOMAIN workflows : OrchestraCalls(c, w)
  \/ \E c \in Calls : Resume(c)
  \/ \E c \in Calls : \E p \in Pending(c), fate \in {"resolve", "reject"} :
       TimerFires(c, p, fate)
  \/ \E c \in Calls : OrchestraSettles(c)

OrchestraSpec == OrchestraInit /\ [][OrchestraNext]_vars

\* ------------------------------------------- the Orchestra's life cycle

\* The Orchestra is built with the default agents configuration (discovery
\* enabled) and the default mcp configuration (no servers)
\* in an environment without the variables of the two default servers, so
\* loadDefaultServers skips both and mcpGateway.initialize sets no timer:
\* initialize runs as a chain of promise jobs.  orchestra.jobs is the queue
\* of those jobs, served first in, first out.

\* the agents registerDefaultAgents registers, part_002 lines 42-64, in the
\* order of its array
DefaultAgents == <<"orchestrator-001", "data-analyst-001">>

\* the ids callers pass to registerAgent
AgentIds == {"data-analyst-001", "custom-001"}

AlreadyRegistered(id) == <<"Agent", id, "already registered">>

\* AgentRegistry.register, part_002 lines 75-102, for an agent that has an id
register(agents, id) ==
  IF id \in agents THEN [agents |-> agents, thrown |-> AlreadyRegistered(id)]
                   ELSE [agents |-> agents \cup {id}, thrown |-> Undefined]

\* the job at the head of the queue has run: it leaves the queue, and when
\* the call it belongs to awaits again its next job joins at the end
Served(jobs, settled) == IF settled THEN Tail(jobs) ELSE Append(Tail(jobs), Head(jobs))

\* initialize, lines 51-61: the guard on isInitialized, then
\* mcpGateway.initialize() up to its await of loadDefaultServers()
InitializeCalled(c) ==
  /\ orchestra.initialize[c].pc = "idle"
  /\ \A d \in Calls : d < c => orchestra.initialize[d].pc # "idle"
  /\ orchestra' =
       IF orchestra.isInitialized
         THEN [orchestra EXCEPT !.initialize[c] = [pc |-> "resolved", warned |-> TRUE]]
         ELSE [orchestra EXCEPT !.initialize[c] = [pc |-> "mcpGateway",
                                                   awaits |-> "loadDefaultServers"],
                                !.initialized["mcpGateway"] = @ + 1,
                                !.jobs = Append(@, Job("initialize", c))]
  /\ UNCHANGED <<config, workflows, step, executions, activeExecutions, uuids, call,
                 order, clock, sweeps, history, promises, shutdown, stored>>

\* One promise job of initialize call c, up to the next await.
\*   gateway.ts 23-37: mcpGateway.initialize resumes and returns;
\*   orchestra.ts 61-65: agentRegistry.initialize() is entered, starts the
\*     discovery service (its interval is set) and registerDefaultAgents
\*     registers the first default agent;
\*   part_002 66-68: the loop registers the next agent, or ends, or the
\*     rejection of register leaves it;
\*   part_002 33-36: agentRegistry.initialize returns or rejects;
\*   orchestra.ts 65-87: the rejection reaches the catch block, which throws
\*     it on; otherwise workflowEngine.initialize(), observability.initialize()
\*     and the assignment of isInitialized follow, one job each.
InitializeJob(c) ==
  /\ orchestra.jobs # <<>>
  /\ Head(orchestra.jobs) = Job("initialize", c)
  /\ LET at == orchestra.initialize[c]
         first == register(orchestra.agents, DefaultAgents[1])
         served(o) == [o EXCEPT !.jobs = Served(@, o.initialize[c].pc \in {"resolved", "rejected"})]
     IN orchestra' = served(
          CASE at.pc = "mcpGateway" /\ at.awaits = "loadDefaultServers" ->
                 [orchestra EXCEPT !.initialize[c] = [pc |-> "mcpGateway",
                                                      awaits |-> "mcpGateway.initialize"]]
            [] at.pc = "mcpGateway" /\ at.awaits = "mcpGateway.initialize" ->
                 [orchestra EXCEPT !.initialize[c] = [pc |-> "agentRegistry", awaits |-> "register",
                                                      next |-> 2, thrown |-> first.thrown],
                                   !.initialized["agentRegistry"] = @ + 1,
                                   !.discovery = @ + 1,
                                   !.agents = first.agents]
            [] at.pc = "agentRegistry" /\ at.awaits = "register" ->
                 IF at.thrown # Undefined \/ at.next > Len(DefaultAgents)
                 THEN [orchestra EXCEPT !.initialize[c] =
                         [pc |-> "agentRegistry", awaits |-> "registerDefaultAgents",
                          next |-> at.next, thrown |-> at.thrown]]
                 ELSE [orchestra EXCEPT !.initialize[c] =
                         [pc |-> "agentRegistry", awaits |-> "register", next |-> at.next + 1,
                          thrown |-> register(orchestra.agents, DefaultAgents[at.next]).thrown],
                                        !.agents =
                          register(orchestra.agents, DefaultAgents[at.next]).agents]
            [] at.pc = "agentRegistry" /\ at.awaits = "registerDefaultAgents" ->
                 [orchestra EXCEPT !.initialize[c].awaits = "agentRegistry.initialize"]
            [] at.pc = "agentRegistry" /\ at.awaits = "agentRegistry.initialize" ->
                 IF at.thrown # Undefined
                 THEN [orchestra EXCEPT !.initialize[c] = [pc |-> "rejected", error |-> at.thrown]]
                 ELSE [orchestra EXCEPT !.initialize[c] = [pc |-> "workflowEngine",
                                                           awaits |-> "workflowEngine.initialize"],
                                        !.initialized["workflowEngine"] = @ + 1]
            [] at.pc = "workflowEngine" ->
                 [orchestra EXCEPT !.initialize[c] = [pc |-> "observability",
                                                      awaits |-> "observability.initialize"],
                                   !.initialized["observability"] = @ + 1]
            [] at.pc = "observability" ->
                 [orchestra EXCEPT !.initialize[c] = [pc |-> "resolved", warned |-> FALSE],
                                   !.isInitialized = TRUE])
  /\ UNCHANGED <<config, workflows, step, executions, activeExecutions, uuids, call,
                 order, clock, sweeps, history, promises, shutdown, stored>>

\* Orchestra.registerAgent, lines 106-110: register runs in the caller's
\* stretch; what follows its await logs and emits
RegisterAgent(id) ==
  /\ orchestra' = [orchestra EXCEPT
                     !.agents = register(@, id).agents,
                     !.registerAgent = [pc |-> "called", id |-> id,
                                        thrown |-> register(orchestra.agents, id).thrown]]
  /\ UNCHANGED <<config, workflows, step, executions, activeExecutions, uuids, call,
                 order, clock, sweeps, history, promises, shutdown, stored>>

\* the id createSupervisor gives its n-th supervisor, part_002 line 176
SupervisorId(n) == "supervisor-" \o ToString(n)

\* Orchestra.createSupervisor, lines 179-187, with part_002 lines 170-237
CreateSupervisor ==
  /\ orchestra.supervisors < MaxCalls
  /\ orchestra' = [orchestra EXCEPT
                     !.supervisors = @ + 1,
                     !.agents = @ \cup {SupervisorId(orchestra.supervisors + 1)}]
  /\ UNCHANGED <<config, workflows, step, executions, activeExecutions, uuids, call,
                 order, clock, sweeps, history, promises, shutdown, stored>>

\* the id the discovery service gives the n-th agent it finds, part_002 line 302
DiscoveredId(n) == "discovered-" \o ToString(n)

\* startDiscoveryService, part_002 lines 296-316: an interval set by
\* agentRegistry.initialize fires, when no promise job is waiting, and
\* Math.random() is below 0.1: the agent it makes up is registered.  (With
\* any other value the callback does nothing.)  shutdown clears no interval.
Discover ==
  /\ orchestra.discovery > 0
  /\ orchestra.jobs = <<>>
  /\ orchestra.discovered < MaxCalls
  /\ orchestra' = [orchestra EXCEPT
                     !.discovered = @ + 1,
                     !.agents = register(@, DiscoveredId(orchestra.discovered + 1)).agents]
  /\ UNCHANGED <<config, workflows, step, executions, activeExecutions, uuids, call,
                 order, clock, sweeps, history, promises, shutdown, stored>>

\* Orchestra.shutdown, lines 220-223: workflowEngine.shutdown() up to its
\* first await.  On an idle engine it returns in the same stretch and the
\* Orchestra's await is a promise job; otherwise the engine's timer comes first.
OrchestraShutdown ==
  /\ orchestra.shutdown.pc = "idle"
  /\ shutdown.pc = "idle"
  /\ Drain
  /\ orchestra' = [orchestra EXCEPT
                     !.shutdown = [pc |-> "workflowEngine"],
                     !.jobs = IF Drained(activeExecutions)
                              THEN Append(@, Job("shutdown", 0)) ELSE @]
  /\ UNCHANGED <<config, workflows, step, activeExecutions, uuids, call, clock, sweeps,
                 history, promises>>

\* One promise job of Orchestra.shutdown, lines 224-232: the next component's
\* shutdown (part_002 351-365 clears the agents), and after the last the
\* listeners are removed and isInitialized is reset
ShutdownJob ==
  /\ orchestra.jobs # <<>>
  /\ Head(orchestra.jobs) = Job("shutdown", 0)
  /\ LET at == orchestra.shutdown.pc
         served(o) == [o EXCEPT !.jobs = Served(@, o.shutdown.pc = "returned")]
     IN orchestra' = served(
          CASE at = "workflowEngine" ->
                 [orchestra EXCEPT !.shutdown.pc = "agentRegistry", !.agents = {}]
            [] at = "agentRegistry" -> [orchestra EXCEPT !.shutdown.pc = "mcpGateway"]
            [] at = "mcpGateway" -> [orchestra EXCEPT !.shutdown.pc = "observability"]
            [] at = "observability" ->
                 [orchestra EXCEPT !.shutdown.pc = "returned", !.isInitialized = FALSE])
  /\ UNCHANGED <<config, workflows, step, executions, activeExecutions, uuids, call,
                 order, clock, sweeps, history, promises, shutdown, stored>>

\* an Orchestra whose engine holds a workflow and runs nothing
InitializeInit ==
  /\ Init
  /\ DOMAIN workflows \subseteq {"par"}
  /\ config.maxConcurrent = MaxConfigured

\* Callers may call at any point; the promise jobs run in the order of the
\* queue.
InitializeNext ==
  \/ \E c \in Calls : InitializeCalled(c)
  \/ \E c \in Calls : InitializeJob(c)
  \/ \E id \in AgentIds : RegisterAgent(id)
  \/ CreateSupervisor
  \/ Discover
  \/ OrchestraShutdown
  \/ ShutdownJob

InitializeSpec == InitializeInit /\ [][InitializeNext]_vars

\* ------------------------------------------------------------- properties


\* C1: in every reachable state the number of active executions is at least 0
\* and at most the configured maximum of concurrent executions.
AdmissionBound ==
  /\ activeExecutions >= 0
  /\ activeExecutions <= config.maxConcurrent

\* two executions are in flight at once and the engine is full
AdmissionBoundWitness ==
  /\ activeExecutions = config.maxConcurrent
  /\ Cardinality(Running) = 2

\* C2: an execute() call made while the number of active executions equals
\* the configured maximum throws the capacity error in that very call, is
\* never admitted later, and changes neither the counter nor the ledger and
\* emits no event.
RejectedAtCapacity ==
  [][\A c \in Calls :
       /\ (call[c].pc = "idle" /\ call'[c].pc # "idle"
             /\ activeExecutions = config.maxConcurrent)
          => /\ call'[c].pc = "rejected"
             /\ call'[c].thrown = CapacityError
             /\ call'[c].emitted = <<>>
             /\ activeExecutions' = activeExecutions
             /\ executions' = executions
       /\ call[c].pc = "rejected" => call'[c] = call[c]]_vars

\* a call was rejected while the engine was full, and the slot has since freed
RejectedAtCapacityWitness ==
  /\ Rejected # {}
  /\ activeExecutions < config.maxConcurrent
  /\ Returned # {}

\* C3: when maxConcurrent + 1 calls have been submitted and none of them has
\* finished, at least one of them has failed with the capacity error.
OneOfTooManyRejected ==
  (Cardinality(Submitted) >= config.maxConcurrent + 1 /\ Returned = {})
    => \E c \in Rejected : call[c].thrown = CapacityError

\* one submission more than the engine admits, all made before any finished
OneOfTooManyRejectedWitness ==
  /\ Cardinality(Submitted) = config.maxConcurrent + 1
  /\ Returned = {}
  /\ Cardinality(Running) = config.maxConcurrent

\* C4: the active-execution counter equals the number of executions admitted
\* and not yet returned (so it is 0 when none is in flight): every finish,
\* by result or by exception, releases once and a rejection releases nothing.
CounterIsInFlight ==
  activeExecutions = Cardinality(Running)

\* one call was rejected, another was admitted, failed and has returned
CounterIsInFlightWitness ==
  /\ Rejected # {}
  /\ \E c \in Returned : ~call[c].returned.success
  /\ activeExecutions = 0


Thrown(c) == call[c].outcome.kind = "throw"

\* C5: an exception raised while an admitted execution runs never leaves
\* execute(): the call returns a result with success = false that carries the
\* exception's message under the execution's id, and that result is in the
\* ledger when the call returns.  Only a call that was not admitted throws.
ExceptionBecomesResult ==
  [][\A c \in Calls :
       (call[c].pc \in {"idle", "running"} /\ call'[c].pc \notin {"idle", "running"})
         => \/ /\ call'[c].pc = "rejected"
               /\ call[c].pc = "idle"
               /\ AtCapacity(activeExecutions, config)
            \/ /\ call'[c].pc = "returned"
               /\ call'[c].executionId \in DOMAIN executions'
               /\ executions'[call'[c].executionId] = call'[c].returned
               /\ call'[c].outcome.kind = "throw"
                    => /\ call'[c].returned.success = FALSE
                       /\ call'[c].returned.error = call'[c].outcome.error
                       /\ call'[c].returned.executionId = call'[c].executionId]_vars

\* a sequential execution whose step ran out of retries has returned
ExceptionBecomesResultWitness ==
  \E c \in Returned :
    /\ Thrown(c)
    /\ workflows[call[c].wf].pattern = "sequential"
    /\ call[c].returned.error = TimedOut(<<call[c].wf, 2>>)

\* the terminal events a call has emitted
Terminal(c) ==
  {i \in 1..Len(call[c].emitted) :
     call[c].emitted[i].type \in {"execution:completed", "execution:failed"}}

\* C6: every admitted execution eventually returns, completed or failed; it
\* emits its started event first and exactly one terminal event, last; once
\* returned it never changes again, so it invokes no further step.
\* (A returned call stays returned, so that every running call eventually
\* returns is stated as: from some point on no call is running.)
ExecutionStateMachine ==
  /\ <>[](Running = {})
  /\ [](\A c \in Calls :
          /\ call[c].pc = "running"
               => /\ Terminal(c) = {}
                  /\ call[c].emitted[1].type = "execution:started"
          /\ call[c].pc = "returned"
               => /\ Terminal(c) = {Len(call[c].emitted)}
                  /\ call[c].emitted[1].type = "execution:started"
                  /\ call[c].pending = {})
  /\ [][\A c \in Calls : call[c].pc = "returned" => call'[c] = call[c]]_vars

\* one execution has completed and another has failed
ExecutionStateMachineWitness ==
  /\ \E c \in Returned : call[c].emitted[Len(call[c].emitted)].type = "execution:completed"
  /\ \E c \in Returned : call[c].emitted[Len(call[c].emitted)].type = "execution:failed"

\* C7: every result in the ledger is stored under its own executionId, the
\* result of an execution that finishes is in the ledger under its id when it
\* returns, and no key leaves the ledger.
LedgerKeyedById ==
  /\ [](\A k \in DOMAIN executions : executions[k].executionId = k)
  /\ [](\A c \in Returned : call[c].executionId \in DOMAIN executions)
  /\ [][DOMAIN executions \subseteq DOMAIN executions']_vars

\* the ledger holds a successful and a failed result
LedgerKeyedByIdWitness ==
  /\ \E k \in DOMAIN executions : executions[k].success
  /\ \E k \in DOMAIN executions : ~executions[k].success


Admitted == Running \cup Returned

\* C8: execution ids are unique and a ledger entry is written once: no two
\* admitted calls have the same execution id, and the ledger keeps for every
\* finished call the result that call returned.
LedgerWrittenOnce ==
  /\ \A c, d \in Admitted : c # d => call[c].executionId # call[d].executionId
  /\ \A c \in Returned :
       /\ call[c].executionId \in DOMAIN executions
       /\ executions[call[c].executionId] = call[c].returned

\* how often call c has invoked step s
Attempts(c, s) == Cardinality({i \in 1..Len(call[c].invoked) : call[c].invoked[i] = s})

\* the retry bound the step was declared with
DeclaredRetries(s) ==
  addStep(config, Declared[s[1]].steps[s[2]].name, Declared[s[1]].steps[s[2]]).retries

Last(seq) == seq[Len(seq)]

\* C9: a sequential execution that failed on a step none of whose attempts
\* succeeded has attempted that step exactly 1 + retries times, retries being
\* the step's declared retry bound.
AttemptsAreOnePlusRetries ==
  \A c \in Returned :
    (/\ workflows[call[c].wf].pattern = "sequential"
     /\ Thrown(c)
     /\ \A i \in 1..Len(call[c].results) :
          call[c].results[i].step # step[Last(call[c].invoked)].name)
      => Attempts(c, Last(call[c].invoked)) = 1 + DeclaredRetries(Last(call[c].invoked))

Invocations(c) == IF call[c].pc \in {"running", "returned"} THEN call[c].invoked ELSE <<>>

\* C10: in the sequential and collaborative patterns a step is invoked only
\* when the step declared before it has a recorded outcome, never before a
\* step declared earlier, and never while another step is in flight.
InvokedInDeclarationOrder ==
  [][\A c \in Calls :
       (/\ call'[c].pc = "running"
        /\ workflows[call'[c].wf].pattern \in {"sequential", "collaborative"}
        /\ Len(Invocations(c)') > Len(Invocations(c)))
         => LET s == Last(call'[c].invoked)
            IN /\ Cardinality(call'[c].pending) = 1
               /\ \A i \in 1..Len(call'[c].invoked) : call'[c].invoked[i][2] <= s[2]
               /\ s[2] > 1 => \E i \in 1..Len(call'[c].results) :
                                call'[c].results[i].step = step[<<s[1], s[2] - 1>>].name]_vars

\* the step events call c has emitted, in order
StepEvents(c) ==
  SelectSeq(call[c].emitted,
            LAMBDA e : e.type \in {"step:started", "step:completed", "step:failed"})

\* the declaration position of the step named n in workflow w
DeclaredAt(w, n) ==
  CHOOSE i \in 1..Len(Declared[w].steps) : Declared[w].steps[i].name = n

\* C11: every sequential execution starts with the first declared step; each
\* later start is either of the step that has just failed or of the step
\* declared right after the one that has just succeeded; and a step that has
\* succeeded in the execution is not started again in it.
RetryScopedToFailingStep ==
  \A c \in Admitted :
    workflows[call[c].wf].pattern = "sequential" =>
      LET ev == StepEvents(c)
          w  == call[c].wf
      IN \A i \in 1..Len(ev) :
           ev[i].type = "step:started" =>
             /\ \A j \in 1..(i - 1) :
                  ~(ev[j].type = "step:completed" /\ ev[j].step = ev[i].step)
             /\ IF i = 1
                THEN DeclaredAt(w, ev[i].step) = 1
                ELSE \/ ev[i - 1].type = "step:failed" /\ ev[i - 1].step = ev[i].step
                     \/ /\ ev[i - 1].type = "step:completed"
                        /\ DeclaredAt(w, ev[i].step) = DeclaredAt(w, ev[i - 1].step) + 1

\* C12: an execution leaves the workflow's definition as it found it: once
\* executions have returned and none is running, the step list of the workflow
\* (its length and order) and the retry bound of every step are those the
\* workflow was registered with.
DefinitionUnchanged ==
  (Returned # {} /\ Running = {}) =>
    /\ \A w \in DOMAIN workflows : workflows[w].steps = createWorkflow(w).steps
    /\ \A s \in DOMAIN step : step[s].retries = DeclaredRetries(s)

\* the steps the loop of running call d has yet to visit, its current one first
Ahead(d) ==
  SubSeq(workflows[call[d].wf].steps, call[d].idx, Len(workflows[call[d].wf].steps))

\* C13: while two sequential executions of a workflow are running, a stretch
\* of one of them (a step of it settling, failing and being retried) changes
\* neither the steps the other has yet to invoke, nor their order, nor the
\* retries left to any step.
ExecutionsDoNotInterfere ==
  [][\A c, d \in Calls :
       (/\ c # d
        /\ call[c].pc = "running" /\ call[d].pc = "running"
        /\ workflows[call[d].wf].pattern = "sequential"
        /\ call'[c] # call[c]
        /\ call'[d] = call[d])
         => /\ Ahead(d)' = Ahead(d)
            /\ \A s \in DOMAIN step : step'[s].retries = step[s].retries]_vars

\* C14: when a step of a sequential execution fails and has no retries left,
\* the execution returns in that very stretch without invoking anything more,
\* and its result has success = false and the failing step's error as its
\* error; a sequential execution that has failed has invoked nothing after the
\* step whose failure ended it.
FailureAborts ==
  /\ [][\A c \in Calls :
          (/\ call[c].pc = "running"
           /\ workflows[call[c].wf].pattern = "sequential"
           /\ Len(StepEvents(c)') > Len(StepEvents(c))
           /\ StepEvents(c)'[Len(StepEvents(c)) + 1].type = "step:failed"
           /\ \A p \in call[c].pending : step[p.step].retries = 0)
            => /\ call'[c].pc = "returned"
               /\ call'[c].invoked = call[c].invoked
               /\ call'[c].returned.success = FALSE
               /\ call'[c].returned.error = StepEvents(c)'[Len(StepEvents(c)) + 1].error]_vars
  /\ [](\A c \in Returned :
          (workflows[call[c].wf].pattern = "sequential" /\ Thrown(c))
            => /\ Last(StepEvents(c)).type = "step:failed"
               /\ Last(StepEvents(c)).step = step[Last(call[c].invoked)].name
               /\ call[c].returned.error = Last(StepEvents(c)).error
               /\ ~call[c].returned.success)

\* transform ran out of retries: the execution failed with its error and
\* store, declared after it, was never invoked
FailureAbortsWitness ==
  \E c \in Returned :
    /\ call[c].wf = "etl"
    /\ ~call[c].returned.success
    /\ call[c].returned.error = TimedOut(<<"etl", 2>>)
    /\ Attempts(c, <<"etl", 2>>) = 2
    /\ Attempts(c, <<"etl", 3>>) = 0

\* the steps whose failure made call c fail: the one whose error the executor
\* threw, or those with a failed outcome among the executor's results
FailedSteps(c) ==
  {s \in DOMAIN step :
     \/ Thrown(c) /\ call[c].outcome.error = TimedOut(s)
     \/ \E k \in DOMAIN call[c].results : call[c].results[k] = Bad(s, TimedOut(s))}

\* C15: the result of an execution that failed because a step failed has a
\* list of outcomes; it holds an outcome for every step the execution
\* invoked, and for each failing step an outcome with success = false and
\* that step's error.
StepErrorsInOutcomes ==
  \A c \in Returned :
    (~call[c].returned.success /\ FailedSteps(c) # {})
      => /\ "results" \in DOMAIN call[c].returned
         /\ \A i \in 1..Len(call[c].invoked) :
              \E k \in DOMAIN call[c].returned.results :
                call[c].returned.results[k].step = step[call[c].invoked[i]].name
         /\ \A s \in FailedSteps(c) :
              \E k \in DOMAIN call[c].returned.results :
                call[c].returned.results[k] = Bad(s, TimedOut(s))

\* the input binding step s was declared with
DeclaredInput(s) == Field(Declared[s[1]].steps[s[2]], "input", Undefined)

\* C16: in a sequential execution a step whose declared input references the
\* previous step is invoked with the output of the step declared before it,
\* which is the latest outcome recorded; a step with a static input is invoked
\* with that input; and a successful result lists exactly one successful
\* outcome per declared step, in declaration order, each with the output its
\* step produces from the input so resolved.
PreviousBindingsResolved ==
  \A c \in Admitted :
    workflows[call[c].wf].pattern = "sequential" =>
      LET w   == call[c].wf
          res == call[c].results
      IN /\ \A p \in call[c].pending :
              IF IsTemplate(DeclaredInput(p.step))
              THEN p.step[2] > 1 =>
                     /\ res # <<>>
                     /\ Last(res).step = Declared[w].steps[p.step[2] - 1].name
                     /\ p.input = Last(res).output
              ELSE p.input = DeclaredInput(p.step)
         /\ (call[c].pc = "returned" /\ call[c].returned.success) =>
              LET out == call[c].returned.results
              IN /\ Len(out) = Len(Declared[w].steps)
                 /\ \A i \in 1..Len(Declared[w].steps) :
                      /\ out[i].step = Declared[w].steps[i].name
                      /\ out[i].success
                      /\ out[i].output =
                           StepOutput(<<w, i>>,
                                      IF ~IsTemplate(DeclaredInput(<<w, i>>))
                                      THEN DeclaredInput(<<w, i>>)
                                      ELSE IF i > 1 THEN out[i - 1].output ELSE Null,
                                      call[c].context)

\* C17: a parallel execution has invoked every step of its workflow exactly
\* once, and the result it returns has success = true if and only if every
\* outcome in it has success = true.
ParallelOnceAndAllOrNothing ==
  \A c \in Admitted :
    workflows[call[c].wf].pattern = "parallel" =>
      /\ \A s \in StepsOf(call[c].wf) : Attempts(c, s) = 1
      /\ Len(call[c].invoked) = Len(workflows[call[c].wf].steps)
      /\ call[c].pc = "returned" =>
           (call[c].returned.success <=>
              \A k \in DOMAIN call[c].returned.results :
                call[c].returned.results[k].success)

\* two parallel executions have returned: in one every step succeeded, in
\* the other one step failed and its sibling succeeded
ParallelOnceAndAllOrNothingWitness ==
  /\ \E c \in Returned :
       /\ workflows[call[c].wf].pattern = "parallel"
       /\ call[c].returned.success
  /\ \E c \in Returned :
       /\ workflows[call[c].wf].pattern = "parallel"
       /\ ~call[c].returned.success
       /\ \E k \in DOMAIN call[c].returned.results : call[c].returned.results[k].success

Range(seq) == {seq[i] : i \in 1..Len(seq)}

\* C18: in a parallel execution every step is either still in flight or has
\* settled, each exactly once, whatever happened to its siblings; the
\* execution returns only when all have settled; and its result holds one
\* outcome per step, the i-th being that of the i-th declared step (its output
\* or its error), whatever the order in which the steps settled.
SiblingsRunToOutcome ==
  \A c \in Admitted :
    workflows[call[c].wf].pattern = "parallel" =>
      LET w == call[c].wf
          n == Len(Declared[w].steps)
      IN /\ {p.step : p \in call[c].pending} \cup Range(call[c].settled) = StepsOf(w)
         /\ Cardinality(call[c].pending) + Len(call[c].settled) = n
         /\ call[c].pc = "returned" =>
              /\ call[c].pending = {}
              /\ DOMAIN call[c].returned.results = 1..n
              /\ \A i \in 1..n :
                   \/ call[c].returned.results[i] =
                        Ok(<<w, i>>, StepOutput(<<w, i>>, DeclaredInput(<<w, i>>), call[c].context))
                   \/ call[c].returned.results[i] = Bad(<<w, i>>, TimedOut(<<w, i>>))

\* the second declared step completed first, then the first one failed: the
\* result lists the failure first and the sibling's success second
SiblingsRunToOutcomeWitness ==
  \E c \in Returned :
    /\ workflows[call[c].wf].pattern = "parallel"
    /\ call[c].settled = << <<call[c].wf, 2>>, <<call[c].wf, 1>> >>
    /\ ~call[c].returned.results[1].success
    /\ call[c].returned.results[2].success

\* C19: in the result of a parallel execution, a step whose outcome is a
\* failure was attempted 1 + retries times, retries being its declared retry
\* bound, and its outcome records that number as its attempts; the outcomes
\* of its siblings are in the result too.
ParallelRetriesBounded ==
  \A c \in Returned :
    workflows[call[c].wf].pattern = "parallel" =>
      LET w   == call[c].wf
          out == call[c].returned.results
      IN \A k \in DOMAIN out :
           ~out[k].success =>
             /\ Attempts(c, <<w, k>>) = 1 + DeclaredRetries(<<w, k>>)
             /\ "attempts" \in DOMAIN out[k]
             /\ out[k].attempts = 1 + DeclaredRetries(<<w, k>>)
             /\ DOMAIN out = 1..Len(Declared[w].steps)

\* C20: a parallel workflow one of whose steps declares an input bound to
\* the previous step's output does not run: either it is not registered, or
\* no execute() call for it invokes a step and none returns a success.
PreviousBindingRejected ==
  \A w \in DOMAIN workflows :
    (/\ workflows[w].pattern = "parallel"
     /\ \E s \in StepsOf(w) : IsTemplate(DeclaredInput(s)))
      => \A c \in Submitted :
           call[c].wf = w =>
             /\ Invocations(c) = <<>>
             /\ call[c].pc = "returned" => ~call[c].returned.success

\* the supervisor's promise of hierarchical call c settled without an outcome
SupervisorFailed(c) == call[c].settled # <<>> /\ call[c].results = <<>>

\* C21: when the supervisor step of a hierarchical execution fails, the
\* execution has invoked the supervisor and nothing else, it has returned a
\* failed result carrying the supervisor's error, and that result is written
\* to the ledger in the stretch in which the supervisor fails.
SupervisorFailureStopsWorkers ==
  /\ [](\A c \in Admitted :
          (workflows[call[c].wf].pattern = "hierarchical" /\ SupervisorFailed(c))
            => /\ Len(call[c].invoked) = 1
               /\ step[call[c].invoked[1]].type = "supervisor"
               /\ call[c].pc = "returned"
               /\ ~call[c].returned.success
               /\ call[c].returned.error = TimedOut(call[c].invoked[1]))
  /\ [][\A c \in Calls :
          (/\ call[c].pc = "running"
           /\ workflows[call[c].wf].pattern = "hierarchical"
           /\ call'[c].pc = "returned"
           /\ SupervisorFailed(c)')
            => /\ call'[c].executionId \in DOMAIN executions'
               /\ ~executions'[call'[c].executionId].success
               /\ executions'[call'[c].executionId] = call'[c].returned]_vars

\* the supervisor of a workflow with two workers timed out: the execution is
\* in the ledger as failed and no worker was invoked
SupervisorFailureStopsWorkersWitness ==
  \E c \in Returned :
    /\ call[c].wf = "hier"
    /\ SupervisorFailed(c)
    /\ call[c].invoked = << <<"hier", 2>> >>
    /\ ~executions[call[c].executionId].success

\* the declaration positions of the steps of workflow w that are not supervisors
WorkerPositions(w) ==
  {i \in 1..Len(Declared[w].steps) :
     Field(Declared[w].steps[i], "type", "action") # "supervisor"}

\* C22: a hierarchical execution invokes a supervisor step first, with no
\* input; a worker is invoked only once the supervisor's outcome is recorded,
\* and with the supervisor's output as its input; a successful result lists
\* the supervisor's outcome first and then one outcome per worker, in
\* declaration order.
SupervisorThenWorkers ==
  \A c \in Admitted :
    (workflows[call[c].wf].pattern = "hierarchical" /\ call[c].invoked # <<>>) =>
      LET w   == call[c].wf
          sup == call[c].invoked[1]
          res == call[c].results
      IN /\ step[sup].type = "supervisor"
         /\ \A p \in call[c].pending :
              IF p.step = sup
              THEN p.input = Null /\ res = <<>>
              ELSE /\ res # <<>>
                   /\ res[1] = Ok(sup, StepOutput(sup, Null, call[c].context))
                   /\ p.input = res[1].output
         /\ Len(call[c].invoked) > 1 => (res # <<>> /\ res[1].step = step[sup].name)
         /\ (call[c].pc = "returned" /\ call[c].returned.success) =>
              LET out == call[c].returned.results
              IN /\ Len(out) = 1 + Cardinality(WorkerPositions(w))
                 /\ out[1] = Ok(sup, StepOutput(sup, Null, call[c].context))
                 /\ \A k \in 2..Len(out) :
                      /\ DeclaredAt(w, out[k].step) \in WorkerPositions(w)
                      /\ out[k] = Ok(<<w, DeclaredAt(w, out[k].step)>>,
                                     StepOutput(<<w, DeclaredAt(w, out[k].step)>>,
                                                out[1].output, call[c].context))
                      /\ \A j \in 2..(k - 1) :
                           DeclaredAt(w, out[j].step) < DeclaredAt(w, out[k].step)

\* a supervisor declared between two workers ran first; the result lists the
\* supervisor, then the workers in declaration order
SupervisorThenWorkersWitness ==
  \E c \in Returned :
    /\ call[c].wf = "hier"
    /\ call[c].returned.success
    /\ call[c].invoked = << <<"hier", 2>>, <<"hier", 1>>, <<"hier", 3>> >>
    /\ call[c].returned.results[3].output = <<"w2", "sup", "null">>

\* C23: once the supervisor of a hierarchical execution has succeeded, every
\* worker has been invoked: no worker's invocation waits for the outcome of
\* another worker, and none is left out because another worker failed.
WorkersRunConcurrently ==
  \A c \in Admitted :
    (workflows[call[c].wf].pattern = "hierarchical" /\ call[c].results # <<>>) =>
      \A i \in WorkerPositions(call[c].wf) : Attempts(c, <<call[c].wf, i>>) >= 1

\* workflow w has no steps, or is hierarchical without exactly one supervisor
StructurallyInvalid(w) ==
  \/ Len(Declared[w].steps) = 0
  \/ /\ Declared[w].pattern = "hierarchical"
     /\ Cardinality((1..Len(Declared[w].steps)) \ WorkerPositions(w)) # 1

\* C24: an execute() call for a structurally invalid workflow is not
\* admitted: it ends with an error raised to the caller, it never runs or
\* returns a result, it invokes no step, and it changes neither the admission
\* counter nor the ledger.
InvalidWorkflowRejected ==
  [][\A c \in Calls :
       (/\ call[c].pc = "idle" /\ call'[c].pc # "idle"
        /\ StructurallyInvalid(call'[c].wf))
         => /\ call'[c].pc = "rejected"
            /\ activeExecutions' = activeExecutions
            /\ executions' = executions]_vars

\* C25: the result of a collaborative execution that completed carries in
\* its metadata the shared context, whose message log has exactly one entry
\* per step of the workflow, the i-th holding the output of the i-th
\* declared step.
SnapshotHasOneEntryPerStep ==
  \A c \in Returned :
    (workflows[call[c].wf].pattern = "collaborative" /\ call[c].returned.success) =>
      LET w   == call[c].wf
          log == call[c].returned.metadata.sharedContext.messages
      IN /\ Len(log) = Len(Declared[w].steps)
         /\ \A i \in 1..Len(log) :
              /\ call[c].returned.results[i].step = Declared[w].steps[i].name
              /\ log[i].content = call[c].returned.results[i].output
              /\ log[i].from = step[<<w, i>>].agent

\* a collaborative workflow of two steps completed with two entries
SnapshotHasOneEntryPerStepWitness ==
  \E c \in Returned :
    /\ call[c].wf = "collab"
    /\ call[c].returned.success
    /\ Len(call[c].returned.metadata.sharedContext.messages) = 2
    /\ call[c].returned.metadata.sharedContext.messages[2].content[1] = "b"

IsPrefix(a, b) == Len(a) <= Len(b) /\ \A i \in 1..Len(a) : a[i] = b[i]

\* C26: while the step at position k of a collaborative execution is in
\* flight, the shared context it was handed holds under state the outputs of
\* exactly the k - 1 earlier steps, keyed by step name, and a message log of
\* k - 1 entries; and the message log of an execution only ever grows at its
\* end.
SharedStateAccumulates ==
  /\ [](\A c \in Running :
          workflows[call[c].wf].pattern = "collaborative" =>
            \A p \in call[c].pending :
              LET w  == call[c].wf
                  sc == sharedContext(call[c])
              IN /\ Len(sc.messages) = p.slot - 1
                 /\ DOMAIN sc.state = {Declared[w].steps[i].name : i \in 1..(p.slot - 1)}
                 /\ \A i \in 1..(p.slot - 1) :
                      sc.state[Declared[w].steps[i].name] = call[c].results[i].output)
  /\ [][\A c \in Calls :
          (call[c].pc = "running" /\ workflows[call[c].wf].pattern = "collaborative")
            => IsPrefix(call[c].messages, call'[c].messages)]_vars

\* C27: the shared context of a collaborative execution holds the entries of
\* that execution's own steps and nothing else, also while other executions
\* of the same workflow are running, and a stretch of one execution leaves the
\* shared context of every other execution as it was.
SharedStateIsPerExecution ==
  /\ [](\A c \in Admitted :
          workflows[call[c].wf].pattern = "collaborative" =>
            /\ sharedContext(call[c]).executionId = call[c].executionId
            /\ Len(call[c].messages) = Len(call[c].results)
            /\ \A i \in 1..Len(call[c].messages) :
                 /\ call[c].messages[i].content = call[c].results[i].output
                 /\ call[c].results[i].step = step[call[c].settled[i]].name
            /\ (call[c].pc = "returned" /\ call[c].returned.success) =>
                 call[c].returned.metadata.sharedContext = sharedContext(call[c]))
  /\ [][\A c, d \in Calls :
          (/\ c # d
           /\ call[d].pc = "running"
           /\ workflows[call[d].wf].pattern = "collaborative"
           /\ call'[c] # call[c])
            => sharedContext(call[d])' = sharedContext(call[d])]_vars

\* two collaborative executions are running at once and each has logged a
\* message of its own
SharedStateIsPerExecutionWitness ==
  /\ Cardinality(Running) = 2
  /\ \A c \in Running :
       /\ workflows[call[c].wf].pattern = "collaborative"
       /\ Len(call[c].messages) = 1

\* the limit latest entries of the ledger, the latest first, or all of them
\* when there are fewer.  No key was written twice, so the Map holds the
\* entries in the order in which their executions completed.
MostRecent(limit, exec, keys) ==
  LET vals == Values(exec, keys)
      n    == Len(vals)
  IN [i \in 1..(IF limit < n THEN limit ELSE n) |-> vals[n + 1 - i]]

\* C28: what getHistory(limit) returns is the min(limit, ledger size) most
\* recently completed results, the most recent first, whatever their
\* durations (stated for ledgers in which every execution has an id of its
\* own).
HistoryIsMostRecent ==
  [][(/\ history' # history
      /\ \A c, d \in Admitted : c # d => call[c].executionId # call[d].executionId)
       => history'.returned = MostRecent(history'.limit, executions, order)]_vars

MaxOf(S) == CHOOSE x \in S : \A y \in S : y <= x

\* the second in which the entry under key k was written last
EntryCompletedAt(k) ==
  MaxOf({call[c].completedAt : c \in {c \in Returned : call[c].executionId = k}})

\* C29: an entry leaves the ledger only in a sweep and only when it was
\* completed longer ago than the retention window, whatever its duration; and
\* a sweep removes every entry that was completed longer ago than that.
SweepRemovesOnlyOld ==
  [][\A k \in DOMAIN executions :
       LET old == clock' - EntryCompletedAt(k) > Seconds(RetentionMs)
       IN /\ k \notin DOMAIN executions' => (sweeps' = sweeps + 1 /\ old)
          /\ (sweeps' = sweeps + 1 /\ old) => k \notin DOMAIN executions']_vars

\* C30: the first event an admitted execution emits is execution:started
\* with its id; it emits at most one terminal event, which carries its id and
\* comes after the started event; and from some point on every admitted
\* execution has emitted exactly one terminal event.
StartedBeforeOneTerminal ==
  /\ [](\A c \in Admitted :
          /\ call[c].emitted[1] = Started(call[c].executionId, call[c].wf)
          /\ Cardinality(Terminal(c)) <= 1
          /\ \A i \in Terminal(c) :
               /\ i > 1
               /\ call[c].emitted[i].executionId = call[c].executionId
          /\ \A i \in 2..Len(call[c].emitted) :
               call[c].emitted[i].type # "execution:started")
  /\ <>[](\A c \in Admitted : Cardinality(Terminal(c)) = 1)

\* a sequential execution emitted started, then step events, then failed
StartedBeforeOneTerminalWitness ==
  \E c \in Returned :
    /\ workflows[call[c].wf].pattern = "sequential"
    /\ Len(call[c].emitted) > 2
    /\ call[c].emitted[1].type = "execution:started"
    /\ Terminal(c) = {Len(call[c].emitted)}
    /\ Last(call[c].emitted).type = "execution:failed"

\* how many of the first n events of call c have one of the types and name step s
EventsOf(c, types, s, n) ==
  Cardinality({i \in 1..n : /\ call[c].emitted[i].type \in types
                            /\ call[c].emitted[i].step = step[s].name})

\* how many attempts of step s have settled in call c
Outcomes(c, s) ==
  Cardinality({i \in 1..Len(call[c].settled) : call[c].settled[i] = s})

\* C31: in every pattern an admitted execution has emitted one step:started
\* event for each invocation of a step and one step:completed or step:failed
\* event for each attempt that has ended, never more outcome events than
\* started events for a step, and every step event lies after the
\* execution:started event and before the terminal event.
StepEventsReported ==
  \A c \in Admitted :
    /\ \A s \in StepsOf(call[c].wf) :
         /\ EventsOf(c, {"step:started"}, s, Len(call[c].emitted)) = Attempts(c, s)
         /\ EventsOf(c, {"step:completed", "step:failed"}, s, Len(call[c].emitted))
              = Outcomes(c, s)
         /\ \A n \in 1..Len(call[c].emitted) :
              EventsOf(c, {"step:completed", "step:failed"}, s, n)
                <= EventsOf(c, {"step:started"}, s, n)
    /\ \A i \in 1..Len(call[c].emitted) :
         call[c].emitted[i].type \in {"step:started", "step:completed", "step:failed"}
           => /\ i > 1
              /\ \A j \in Terminal(c) : i < j

\* C32: the terminal event of a returned execution agrees with its result:
\* execution:completed goes with success = TRUE and execution:failed with
\* success = FALSE, whatever the pattern.
TerminalEventAgreesWithResult ==
  \A c \in Returned :
    /\ Last(call[c].emitted).type = "execution:completed" => call[c].returned.success
    /\ Last(call[c].emitted).type = "execution:failed" => ~call[c].returned.success

\* C33: a step attempt's promise settles once and keeps its outcome: a
\* rejected one carries the timeout error and belongs to an attempt whose
\* timeout was due first, a fulfilled one carries the operation's output and
\* its timeout's timer never fired; and from some point on no attempt is
\* pending.
AttemptHasOneOutcome ==
  /\ [][\A i \in DOMAIN promises :
          promises[i].state # "pending"
            => /\ promises'[i].state = promises[i].state
               /\ promises'[i].value = promises[i].value]_vars
  /\ [](\A i \in DOMAIN promises :
          LET p == promises[i]
          IN /\ p.state = "rejected"
                  => /\ p.value = TimedOut(p.step)
                     /\ TimerDelay(step[p.step].timeout) <= TimerDelay(p.delay)
             /\ p.state = "fulfilled"
                  => /\ p.value = StepOutput(p.step, p.input, p.context)
                     /\ p.timeout # "fired"
                     /\ TimerDelay(p.delay) < TimerDelay(step[p.step].timeout))
  /\ <>[](\A i \in DOMAIN promises : promises[i].state # "pending")

\* one attempt timed out and its operation's timer has fired since, another
\* was resolved by its operation and its timeout was cleared
AttemptHasOneOutcomeWitness ==
  /\ \E i \in DOMAIN promises : /\ promises[i].state = "rejected"
                                /\ promises[i].operation = "fired"
  /\ \E i \in DOMAIN promises : /\ promises[i].state = "fulfilled"
                                /\ promises[i].timeout = "cleared"

\* what a declared condition <<"input is", v>> asks of the step's input
ConditionHolds(conditions, input) == input = <<"lit", conditions[2]>>

\* the steps of call c's workflow whose condition is false against the input
\* they are declared with
FalseConditioned(c) ==
  {s \in StepsOf(call[c].wf) :
     /\ step[s].conditions # Undefined
     /\ ~ConditionHolds(step[s].conditions, step[s].input)}

\* C34: a step whose declared condition is false against its input is never
\* invoked, so no timer is ever set for it; a sequential execution of its
\* workflow still runs the following step, and its result counts the step as
\* a success.
FalseConditionSkips ==
  \A c \in Admitted :
    /\ \A s \in FalseConditioned(c) : Attempts(c, s) = 0
    /\ (call[c].pc = "returned" /\ FalseConditioned(c) # {}
          /\ workflows[call[c].wf].pattern = "sequential")
         => /\ call[c].returned.success
            /\ \A s \in StepsOf(call[c].wf) \ FalseConditioned(c) : Attempts(c, s) = 1

\* what the caller passed to addStep for step s
DeclaredStep(s) == Declared[s[1]].steps[s[2]]

\* C35: before any execution a step object holds the retry bound and the
\* timeout it was declared with, and the engine's defaults where the caller
\* left them out; and no execution attempts a step declared with a retry
\* bound of 0 more than once.
ExplicitValuesKept ==
  /\ (\A c \in Calls : call[c].pc = "idle")
       => \A s \in DOMAIN step :
            /\ step[s].retries = IF "retries" \in DOMAIN DeclaredStep(s)
                                 THEN DeclaredStep(s).retries
                                 ELSE config.retryPolicy.maxRetries
            /\ step[s].timeout = IF "timeout" \in DOMAIN DeclaredStep(s)
                                 THEN DeclaredStep(s).timeout
                                 ELSE config.defaultTimeout
  /\ \A c \in Admitted : \A s \in StepsOf(call[c].wf) :
       ("retries" \in DOMAIN DeclaredStep(s) /\ DeclaredStep(s).retries = 0)
         => Attempts(c, s) <= 1

\* C36: every engine enforces a maximum: there is a number of active
\* executions, no larger than the default maximum when none is configured,
\* at which execute rejects, and the number of active executions never
\* exceeds it.
EveryEngineHasAMaximum ==
  /\ \E n \in 0..DefaultMaxConcurrent : AtCapacity(n, config)
  /\ activeExecutions <= Field(config, "maxConcurrent", DefaultMaxConcurrent)

\* C37: shutdown() returns only in a state in which no execution is in
\* flight, and its return leaves the workflow store and the ledger empty; and
\* a shutdown() call that is waiting eventually returns.
ShutdownDrains ==
  /\ [][(shutdown.pc # "returned" /\ shutdown'.pc = "returned")
          => /\ Running = {}
             /\ activeExecutions = 0
             /\ Running' = {}
             /\ stored' = {}
             /\ DOMAIN executions' = {}]_vars
  /\ (shutdown.pc = "waiting") ~> (shutdown.pc = "returned")

\* C38: an Orchestra.execute call that has returned has resolved, never
\* rejected: with the engine's result when the engine ran the workflow, with
\* a failed result carrying the capacity error when the engine rejected the
\* call, and with a failed result carrying the not-found error when the id
\* was unknown; and neither the engine's rejection nor Orchestra's handling
\* of it changes the engine's counter or its ledger.
OrchestraExecuteNeverRejects ==
  /\ [](\A c \in Calls :
          orchestra.execute[c].pc = "returned"
            => /\ orchestra.execute[c].settled = "resolved"
               /\ call[c].pc = "returned"
                    => orchestra.execute[c].result = call[c].returned
               /\ call[c].pc = "rejected"
                    => orchestra.execute[c].result =
                         [success |-> FALSE, executionId |-> OrchestraId(c),
                          error |-> CapacityError]
               /\ call[c].pc = "idle"
                    => orchestra.execute[c].result =
                         [success |-> FALSE, executionId |-> OrchestraId(c),
                          error |-> NotFound(UnknownId)])
  /\ [][\A c \in Calls :
          (\/ call[c].pc = "idle" /\ call'[c].pc = "rejected"
           \/ /\ orchestra.execute[c].pc # "returned"
              /\ orchestra'.execute[c].pc = "returned"
              /\ call[c].pc \in {"idle", "rejected"})
            => /\ activeExecutions' = activeExecutions
               /\ executions' = executions]_vars

\* the engine rejected an Orchestra.execute call for lack of capacity and the
\* call has returned, while the execution that filled the engine has ended
\* and its call has returned too
OrchestraExecuteNeverRejectsWitness ==
  \E c, d \in Calls :
    /\ call[c].pc = "rejected"
    /\ orchestra.execute[c].pc = "returned"
    /\ call[d].pc = "returned"
    /\ orchestra.execute[d].pc = "returned"

\* C39: in a life of the Orchestra in which callers call initialize, however
\* the calls interleave, and neither registerAgent nor shutdown, each
\* component is initialized at most once and no call fails.
InitializeIdempotent ==
  (orchestra.registerAgent.pc = "idle" /\ orchestra.shutdown.pc = "idle")
    => /\ \A k \in Components : orchestra.initialized[k] <= 1
       /\ \A c \in Calls : orchestra.initialize[c].pc # "rejected"

====
